---- MODULE Spec2Model ----
(***************************************************************************)
(* Technical indicator engine of trading-bot-data-ingestion                *)
(* (src/src/scheduler.py).  The bar series is the DataFrame handed to the  *)
(* calculate_* functions; every float is an exact value of the extended    *)
(* rationals (finite n/d, optionally plus a square root, +inf, -inf, NaN), *)
(* with the IEEE-754 rules for the non-finite cases.                       *)
(***************************************************************************)
EXTENDS Integers, Sequences, FiniteSets, TLC

VARIABLES data, call, ret, sched, db

vars == <<data, call, ret, sched, db>>

(***************************************************************************)
(* Floats.  k is the kind: "num" (n/d + sign(r)*sqrt(|r|/rd), d > 0,       *)
(* rd > 0, fractions in lowest terms, r = 0 for a rational), "nan",        *)
(* "inf", "ninf", and "err" for an IndexError raised while the value was   *)
(* being computed (it propagates through every operation as a raise does). *)
(***************************************************************************)
Abs(x) == IF x < 0 THEN -x ELSE x

Sgn(x) == IF x > 0 THEN 1 ELSE IF x < 0 THEN -1 ELSE 0

RECURSIVE Gcd(_, _)
Gcd(a, b) == IF b = 0 THEN a ELSE Gcd(b, a % b)

\* The largest s in lo..hi with s*s <= x, by bisection.
RECURSIVE ISqrtIn(_, _, _)
ISqrtIn(x, lo, hi) ==
    IF lo = hi THEN lo
    ELSE LET mid == (lo + hi + 1) \div 2
         IN  IF mid * mid <= x THEN ISqrtIn(x, mid, hi) ELSE ISqrtIn(x, lo, mid - 1)

ISqrt(x) == ISqrtIn(x, 0, IF x < 46340 THEN x ELSE 46340)

IsSquare(x) == ISqrt(x) * ISqrt(x) = x

Special(kind) == [k |-> kind, n |-> 0, d |-> 1, r |-> 0, rd |-> 1]

NaN == Special("nan")

PInf == Special("inf")

NInf == Special("ninf")

IndexError == Special("err")

\* n/d + sign(r)*sqrt(|r|/rd) in canonical form; d > 0 and rd > 0.
Surd(n, d, r, rd) ==
    LET g  == Gcd(Abs(n), d)
        h  == Gcd(Abs(r), rd)
        r1 == r \div h
        d1 == rd \div h
    IN  IF IsSquare(Abs(r1)) /\ IsSquare(d1)
        THEN LET pn == (n \div g) * ISqrt(d1) + Sgn(r1) * ISqrt(Abs(r1)) * (d \div g)
                 pd == (d \div g) * ISqrt(d1)
                 f  == Gcd(Abs(pn), pd)
             IN  [k |-> "num", n |-> pn \div f, d |-> pd \div f, r |-> 0, rd |-> 1]
        ELSE [k |-> "num", n |-> n \div g, d |-> d \div g, r |-> r1, rd |-> d1]

Num(n, d) ==
    LET g == Gcd(Abs(n), d) IN [k |-> "num", n |-> n \div g, d |-> d \div g, r |-> 0, rd |-> 1]

Whole(n) == Num(n, 1)

IsNum(a) == a.k = "num"

IsNull(a) == a.k = "nan"

IsInfinite(a) == a.k \in {"inf", "ninf"}

\* The sign of a rational or an infinity: -1, 0 or 1.
SignOf(a) == IF a.k = "inf" THEN 1 ELSE IF a.k = "ninf" THEN -1 ELSE Sgn(a.n)

Signed(s) == IF s > 0 THEN PInf ELSE NInf

Neg(a) ==
    IF a.k = "inf" THEN NInf
    ELSE IF a.k = "ninf" THEN PInf
    ELSE IF a.k = "num" THEN [a EXCEPT !.n = -a.n, !.r = -a.r]
    ELSE a

\* At most one operand of a sum carries a square root.
Add(a, b) ==
    IF a.k = "err" \/ b.k = "err" THEN IndexError
    ELSE IF a.k = "nan" \/ b.k = "nan" THEN NaN
    ELSE IF IsInfinite(a) /\ IsInfinite(b) THEN (IF a.k = b.k THEN a ELSE NaN)
    ELSE IF IsInfinite(a) THEN a
    ELSE IF IsInfinite(b) THEN b
    ELSE IF a.d = 1 /\ b.d = 1 /\ a.r = 0 /\ b.r = 0 THEN [a EXCEPT !.n = a.n + b.n]
    ELSE LET g == Gcd(a.d, b.d)
             s == IF a.r = 0 THEN b ELSE a
             n == a.n * (b.d \div g) + b.n * (a.d \div g)
             d == (a.d \div g) * b.d
         IN  CASE a.r = 0 /\ b.r = 0 -> Num(n, d)
               [] a.r = 0 \/ b.r = 0 -> Surd(n, d, s.r, s.rd)

Sub(a, b) == Add(a, Neg(b))

\* At most one operand of a product carries a square root.
Mul(a, b) ==
    IF a.k = "err" \/ b.k = "err" THEN IndexError
    ELSE IF a.k = "nan" \/ b.k = "nan" THEN NaN
    ELSE IF IsInfinite(a) \/ IsInfinite(b)
         THEN (IF SignOf(a) * SignOf(b) = 0 THEN NaN ELSE Signed(SignOf(a) * SignOf(b)))
    ELSE IF a.d = 1 /\ b.d = 1 /\ a.r = 0 /\ b.r = 0 THEN [a EXCEPT !.n = a.n * b.n]
    ELSE LET g1 == Gcd(Abs(a.n), b.d)
             g2 == Gcd(Abs(b.n), a.d)
             s  == IF a.r = 0 THEN b ELSE a
             q  == IF a.r = 0 THEN a ELSE b
             n  == (a.n \div g1) * (b.n \div g2)
             d  == (a.d \div g2) * (b.d \div g1)
         IN  CASE a.r = 0 /\ b.r = 0 -> Num(n, d)
               [] a.r = 0 \/ b.r = 0 ->
                  Surd(n, d, Sgn(q.n) * s.r * q.n * q.n, s.rd * q.d * q.d)

\* Division of rationals and infinities; x/0 is +-inf, 0/0 is NaN.
Div(a, b) ==
    IF a.k = "err" \/ b.k = "err" THEN IndexError
    ELSE IF a.k = "nan" \/ b.k = "nan" THEN NaN
    ELSE IF IsInfinite(a) /\ IsInfinite(b) THEN NaN
    ELSE IF IsInfinite(a) THEN Signed(SignOf(a) * (IF SignOf(b) < 0 THEN -1 ELSE 1))
    ELSE IF IsInfinite(b) THEN Whole(0)
    ELSE IF b.n = 0 THEN (IF a.n = 0 THEN NaN ELSE Signed(a.n))
    ELSE CASE a.r = 0 /\ b.r = 0 ->
              Mul(a, Num(Sgn(b.n) * b.d, Abs(b.n)))

\* a < b, a > b on floats: every comparison with NaN is false.
Lt(a, b) ==
    /\ a.k # "nan" /\ b.k # "nan"
    /\ IF IsInfinite(a) \/ IsInfinite(b)
       THEN SignOf(IF IsInfinite(a) THEN a ELSE Whole(0)) < SignOf(IF IsInfinite(b) THEN b ELSE Whole(0))
       ELSE a.n * b.d < b.n * a.d

Gt(a, b) == Lt(b, a)

FAbs(a) == IF a.k = "ninf" THEN PInf ELSE IF a.k = "num" /\ a.n < 0 THEN Neg(a) ELSE a

\* np.sign: -1, 0, 1, and NaN for NaN.
NpSign(a) == IF a.k \in {"nan", "err"} THEN a ELSE Whole(SignOf(a))

\* The square root of a non-negative rational.
FSqrt(a) ==
    IF a.k # "num" THEN a
    ELSE IF a.n < 0 THEN NaN
    ELSE Surd(0, 1, a.n * a.d, a.d * a.d)

(***************************************************************************)
(* pandas Series: a sequence of floats.                                    *)
(***************************************************************************)
Col(df, c) == [i \in 1..Len(df) |-> df[i][c]]

\* len(s)
SLen(s) == Cardinality(DOMAIN s)

\* s.iloc[-1]: IndexError on an empty Series.
ILast(s) == IF SLen(s) = 0 THEN IndexError ELSE s[SLen(s)]

Zip(f(_, _), s, t) == [i \in 1..SLen(s) |-> f(s[i], t[i])]

\* s.diff()
SeriesDiff(s) == [i \in 1..SLen(s) |-> IF i = 1 THEN NaN ELSE Sub(s[i], s[i - 1])]

\* s.shift()
SeriesShift(s) == [i \in 1..SLen(s) |-> IF i = 1 THEN NaN ELSE s[i - 1]]

\* Rolling aggregations feed the window to the aggregation with +-inf
\* replaced by NaN, and need `window` non-null observations (min_periods
\* defaults to the window).
RollingObs(s, w, i) == {j \in (i - w + 1)..i : j >= 1 /\ s[j].k = "num"}

RollingFull(s, w, i) == Cardinality(RollingObs(s, w, i)) = w

RECURSIVE SumOver(_, _, _)
SumOver(s, lo, hi) == IF lo > hi THEN Whole(0) ELSE Add(SumOver(s, lo, hi - 1), s[hi])

RECURSIVE MinOver(_, _, _)
MinOver(s, lo, hi) ==
    IF lo = hi THEN s[lo]
    ELSE LET m == MinOver(s, lo, hi - 1) IN IF Lt(s[hi], m) THEN s[hi] ELSE m

RECURSIVE MaxOver(_, _, _)
MaxOver(s, lo, hi) ==
    IF lo = hi THEN s[lo]
    ELSE LET m == MaxOver(s, lo, hi - 1) IN IF Gt(s[hi], m) THEN s[hi] ELSE m

\* RollingSum over a window that keeps +-inf instead of dropping it.
RollingSumKeepingInf(s, w) ==
    [i \in 1..SLen(s) |->
        IF i >= w /\ \A j \in (i - w + 1)..i : s[j].k # "nan"
        THEN SumOver(s, i - w + 1, i) ELSE NaN]

\* s.rolling(window=w).sum()
RollingSum(s, w) ==
    [i \in 1..SLen(s) |-> IF RollingFull(s, w, i) THEN SumOver(s, i - w + 1, i) ELSE NaN]

\* RollingMean with min_periods=1: the mean of whatever the window holds.
RollingMeanPartial(s, w) ==
    [i \in 1..SLen(s) |->
        LET lo == IF i - w + 1 < 1 THEN 1 ELSE i - w + 1
        IN  Div(SumOver(s, lo, i), Whole(i - lo + 1))]

\* s.rolling(window=w).mean()
RollingMean(s, w) ==
    [i \in 1..SLen(s) |->
        IF RollingFull(s, w, i) THEN Div(SumOver(s, i - w + 1, i), Whole(w)) ELSE NaN]

\* s.rolling(window=w).min()
RollingMin(s, w) ==
    [i \in 1..SLen(s) |-> IF RollingFull(s, w, i) THEN MinOver(s, i - w + 1, i) ELSE NaN]

\* s.rolling(window=w).max()
RollingMax(s, w) ==
    [i \in 1..SLen(s) |-> IF RollingFull(s, w, i) THEN MaxOver(s, i - w + 1, i) ELSE NaN]

\* The sum of squared deviations of s[lo..hi] from m.
RECURSIVE SqDevOver(_, _, _, _)
SqDevOver(s, m, lo, hi) ==
    IF lo > hi THEN Whole(0)
    ELSE Add(SqDevOver(s, m, lo, hi - 1), Mul(Sub(s[hi], m), Sub(s[hi], m)))

\* The degrees of freedom rolling(...).std() takes off the divisor (ddof).
StdDdof == 1

\* RollingStd with ddof=0: divisor w.
RollingStdPopulation(s, w) ==
    [i \in 1..SLen(s) |->
        IF RollingFull(s, w, i)
        THEN LET m == Div(SumOver(s, i - w + 1, i), Whole(w))
             IN  IF m.k = "num"
                 THEN FSqrt(Div(SqDevOver(s, m, i - w + 1, i), Whole(w)))
                 ELSE m
        ELSE NaN]

\* s.rolling(window=w).std(): divisor w - ddof.
RollingStd(s, w) ==
    [i \in 1..SLen(s) |->
        IF RollingFull(s, w, i)
        THEN LET m == Div(SumOver(s, i - w + 1, i), Whole(w))
             IN  IF m.k = "num"
                 THEN FSqrt(Div(SqDevOver(s, m, i - w + 1, i), Whole(w - StdDdof)))
                 ELSE m
        ELSE NaN]

(***************************************************************************)
(* s.ewm(span=span, min_periods=minp).mean() with the defaults adjust=True *)
(* and ignore_na=False: the running weighted mean of the observations,     *)
(* weights decaying by 1 - alpha per position, alpha = 2/(span+1).         *)
(***************************************************************************)
EwmDecay(span) == Num(span - 1, span + 1)

EwmObsBefore(s, i) == \E j \in 1..(i - 1) : s[j].k = "num"

\* old_wt under adjust=False: the weights alpha and 1 - alpha at every step.
EwmOldWtUnadjusted(s, span, i) == Num(span + 1, 2)

\* old_wt after position i.
RECURSIVE EwmOldWt(_, _, _)
EwmOldWt(s, span, i) ==
    IF i = 1 \/ ~EwmObsBefore(s, i) THEN Whole(1)
    ELSE LET o == Mul(EwmOldWt(s, span, i - 1), EwmDecay(span))
         IN  IF s[i].k = "num" THEN Add(o, Whole(1)) ELSE o

\* weighted after position i.
RECURSIVE EwmWeighted(_, _, _)
EwmWeighted(s, span, i) ==
    IF i = 1 THEN s[1]
    ELSE LET w   == EwmWeighted(s, span, i - 1)
             cur == s[i]
             o   == Mul(EwmOldWt(s, span, i - 1), EwmDecay(span))
         IN  IF w.k = "num"
             THEN (IF cur.k = "num" /\ w # cur
                   THEN Div(Add(Mul(o, w), cur), Add(o, Whole(1)))
                   ELSE w)
             ELSE cur

EwmMean(s, span, minp) ==
    [i \in 1..SLen(s) |->
        IF Cardinality({j \in 1..i : s[j].k = "num"}) >= minp
        THEN EwmWeighted(s, span, i) ELSE NaN]

(***************************************************************************)
(* Moving averages.                                                        *)
(***************************************************************************)
DefaultPeriod == 14

calculate_sma(df, period) == ILast(RollingMean(Col(df, "close_price"), period))

\* calculate_ema with the window as min_periods, as calculate_sma has it.
calculate_ema_strict(df, period) == ILast(EwmMean(Col(df, "close_price"), period, period))

calculate_ema(df, period) == ILast(EwmMean(Col(df, "close_price"), period, 1))

(***************************************************************************)
(* Element-wise Series arithmetic and the remaining pandas operations.     *)
(***************************************************************************)
SAdd(s, t) == [i \in 1..SLen(s) |-> Add(s[i], t[i])]

SSub(s, t) == [i \in 1..SLen(s) |-> Sub(s[i], t[i])]

SMul(s, t) == [i \in 1..SLen(s) |-> Mul(s[i], t[i])]

SDiv(s, t) == [i \in 1..SLen(s) |-> Div(s[i], t[i])]

SNeg(s) == [i \in 1..SLen(s) |-> Neg(s[i])]

SAbs(s) == [i \in 1..SLen(s) |-> FAbs(s[i])]

SScale(s, c) == [i \in 1..SLen(s) |-> Mul(s[i], c)]

\* s.where(s > 0, 0) and s.where(s < 0, 0): NaN fails the test and becomes 0.
WherePositive(s) == [i \in 1..SLen(s) |-> IF Gt(s[i], Whole(0)) THEN s[i] ELSE Whole(0)]

WhereNegative(s) == [i \in 1..SLen(s) |-> IF Lt(s[i], Whole(0)) THEN s[i] ELSE Whole(0)]

\* max of two floats skipping NaN.
NanMax(a, b) == IF a.k = "nan" THEN b ELSE IF b.k = "nan" THEN a ELSE IF Lt(a, b) THEN b ELSE a

\* .max(axis=1, skipna=False): a row with a missing entry has no maximum.
RowMaxPropagating(a, b, c) ==
    [i \in 1..SLen(a) |->
        IF a[i].k = "nan" \/ b[i].k = "nan" \/ c[i].k = "nan" THEN NaN
        ELSE NanMax(NanMax(a[i], b[i]), c[i])]

\* pd.concat([a, b, c], axis=1).max(axis=1)
RowMax(a, b, c) == [i \in 1..SLen(a) |-> NanMax(NanMax(a[i], b[i]), c[i])]

\* s.cumsum(): NaN entries stay NaN and add nothing to the running sum.
RECURSIVE RunningSum(_, _)
RunningSum(s, i) ==
    IF i = 0 THEN Whole(0)
    ELSE IF s[i].k = "nan" THEN RunningSum(s, i - 1)
    ELSE Add(RunningSum(s, i - 1), s[i])

CumSum(s) == [i \in 1..SLen(s) |-> IF s[i].k = "nan" THEN NaN ELSE RunningSum(s, i)]

\* s.pct_change(periods=p)
PctChange(s, p) ==
    [i \in 1..SLen(s) |-> IF i <= p THEN NaN ELSE Sub(Div(s[i], s[i - p]), Whole(1))]

(***************************************************************************)
(* Momentum indicators.                                                    *)
(***************************************************************************)
\* calculate_rsi with the ratio upside down: rs = loss / gain.
calculate_rsi_inverted(df, period) ==
    LET delta == SeriesDiff(Col(df, "close_price"))
        gain  == RollingMean(WherePositive(delta), period)
        loss  == RollingMean(SNeg(WhereNegative(delta)), period)
        rs    == ILast(SDiv(loss, gain))
    IN  Sub(Whole(100), Div(Whole(100), Add(Whole(1), rs)))

\* calculate_rsi with a guard that reports 100 whenever the average loss is 0.
calculate_rsi_saturating(df, period) ==
    LET delta == SeriesDiff(Col(df, "close_price"))
        gain  == RollingMean(WherePositive(delta), period)
        loss  == RollingMean(SNeg(WhereNegative(delta)), period)
        rs    == ILast(SDiv(gain, loss))
    IN  IF ILast(loss) = Whole(0) THEN Whole(100)
        ELSE Sub(Whole(100), Div(Whole(100), Add(Whole(1), rs)))

calculate_rsi(df, period) ==
    LET delta == SeriesDiff(Col(df, "close_price"))
        gain  == RollingMean(WherePositive(delta), period)
        loss  == RollingMean(SNeg(WhereNegative(delta)), period)
        rs    == ILast(SDiv(gain, loss))
    IN  Sub(Whole(100), Div(Whole(100), Add(Whole(1), rs)))

FastPeriod == 12

SlowPeriod == 26

SignalPeriod == 9

MacdSeries(df) ==
    SSub(EwmMean(Col(df, "close_price"), FastPeriod, 1),
         EwmMean(Col(df, "close_price"), SlowPeriod, 1))

\* <<macd, macd_signal>>
calculate_macd(df) ==
    <<ILast(MacdSeries(df)), ILast(EwmMean(MacdSeries(df), SignalPeriod, 1))>>

calculate_stochastic(df, period) ==
    LET lowest_low   == RollingMin(Col(df, "low_price"), period)
        highest_high == RollingMax(Col(df, "high_price"), period)
    IN  ILast(SScale(SDiv(SSub(Col(df, "close_price"), lowest_low),
                          SSub(highest_high, lowest_low)), Whole(100)))

(***************************************************************************)
(* Volatility indicators.                                                  *)
(***************************************************************************)
BollingerWindow == 20

NumStdDev == 2

\* <<upper_band, lower_band>>
calculate_bollinger_bands(df, window, num_std_dev) ==
    LET rolling_mean == ILast(RollingMean(Col(df, "close_price"), window))
        rolling_std  == ILast(RollingStd(Col(df, "close_price"), window))
    IN  <<Add(rolling_mean, Mul(rolling_std, Whole(num_std_dev))),
          Sub(rolling_mean, Mul(rolling_std, Whole(num_std_dev)))>>

TrueRange(df) ==
    LET high_low   == SSub(Col(df, "high_price"), Col(df, "low_price"))
        high_close == SAbs(SSub(Col(df, "high_price"), SeriesShift(Col(df, "close_price"))))
        low_close  == SAbs(SSub(Col(df, "low_price"), SeriesShift(Col(df, "close_price"))))
    IN  RowMax(high_low, high_close, low_close)

calculate_atr(df, period) == ILast(RollingMean(TrueRange(df), period))

(***************************************************************************)
(* Trend indicators.                                                       *)
(***************************************************************************)
calculate_adx(df, period) ==
    LET plus_dm           == SeriesDiff(Col(df, "high_price"))
        minus_dm          == SNeg(SeriesDiff(Col(df, "low_price")))
        plus_dm_smoothed  == RollingMean(plus_dm, period)
        minus_dm_smoothed == RollingMean(minus_dm, period)
        tr_smoothed       == RollingMean(TrueRange(df), period)
    IN  ILast(SDiv(SScale(SSub(plus_dm_smoothed, minus_dm_smoothed), Whole(100)), tr_smoothed))

calculate_parabolic_sar(df) == ILast(Col(df, "close_price"))

(***************************************************************************)
(* Volume indicators.                                                      *)
(***************************************************************************)
calculate_obv(df) ==
    ILast(CumSum(SMul(Col(df, "volume"),
                      [i \in 1..Len(df) |-> NpSign(SeriesDiff(Col(df, "close_price"))[i])])))

\* ((close - low) - (high - close)) / (high - low), bar by bar.
MoneyFlowMultiplier(df) ==
    SDiv(SSub(SSub(Col(df, "close_price"), Col(df, "low_price")),
              SSub(Col(df, "high_price"), Col(df, "close_price"))),
         SSub(Col(df, "high_price"), Col(df, "low_price")))

CmfPeriod == 20

calculate_cmf(df, period) ==
    ILast(SDiv(RollingSum(SMul(MoneyFlowMultiplier(df), Col(df, "volume")), period),
               RollingSum(Col(df, "volume"), period)))

calculate_ad_line(df) == ILast(CumSum(SMul(MoneyFlowMultiplier(df), Col(df, "volume"))))

(***************************************************************************)
(* Other indicators.                                                       *)
(***************************************************************************)
RocPeriod == 12

\* calculate_roc without the scaling to a percentage.
calculate_roc_fraction(df, period) == ILast(PctChange(Col(df, "close_price"), period))

calculate_roc(df, period) ==
    ILast(SScale(PctChange(Col(df, "close_price"), period), Whole(100)))

calculate_williams_r(df, period) ==
    LET highest_high == RollingMax(Col(df, "high_price"), period)
        lowest_low   == RollingMin(Col(df, "low_price"), period)
    IN  ILast(SScale(SDiv(SSub(highest_high, Col(df, "close_price")),
                          SSub(highest_high, lowest_low)), Whole(-100)))

(***************************************************************************)
(* The catalogue: every indicator once, as {date, indicator_name, value}.  *)
(***************************************************************************)
\* data['Date'].iloc[0], the first bar's date.
FirstDate(df) == IF Len(df) = 0 THEN IndexError ELSE df[1].Date

\* data['Date'].iloc[-1]
LastDate(df) == ILast(Col(df, "Date"))

\* One appended record.
Indicator(date, name, value) == [date |-> date, indicator_name |-> name, value |-> value]

\* The records in the order of the appends, each dated data['Date'].iloc[-1].
IndicatorRows(df) ==
    << Indicator(LastDate(df), "SMA", calculate_sma(df, DefaultPeriod)),
       Indicator(LastDate(df), "SMA_20", calculate_sma(df, 20)),
       Indicator(LastDate(df), "SMA_50", calculate_sma(df, 50)),
       Indicator(LastDate(df), "SMA_100", calculate_sma(df, 100)),
       Indicator(LastDate(df), "SMA_200", calculate_sma(df, 200)),
       Indicator(LastDate(df), "EMA", calculate_ema(df, DefaultPeriod)),
       Indicator(LastDate(df), "EMA_20", calculate_ema(df, 20)),
       Indicator(LastDate(df), "EMA_50", calculate_ema(df, 50)),
       Indicator(LastDate(df), "EMA_100", calculate_ema(df, 100)),
       Indicator(LastDate(df), "EMA_200", calculate_ema(df, 200)),
       Indicator(LastDate(df), "RSI", calculate_rsi(df, DefaultPeriod)),
       Indicator(LastDate(df), "MACD", calculate_macd(df)[1]),
       Indicator(LastDate(df), "MACD_Signal", calculate_macd(df)[2]),
       Indicator(LastDate(df), "Stochastic", calculate_stochastic(df, DefaultPeriod)),
       Indicator(LastDate(df), "Bollinger_Upper", calculate_bollinger_bands(df, BollingerWindow, NumStdDev)[1]),
       Indicator(LastDate(df), "Bollinger_Lower", calculate_bollinger_bands(df, BollingerWindow, NumStdDev)[2]),
       Indicator(LastDate(df), "ATR", calculate_atr(df, DefaultPeriod)),
       Indicator(LastDate(df), "ADX", calculate_adx(df, DefaultPeriod)),
       Indicator(LastDate(df), "OBV", calculate_obv(df)),
       Indicator(LastDate(df), "CMF", calculate_cmf(df, CmfPeriod)),
       Indicator(LastDate(df), "AD_Line", calculate_ad_line(df)),
       Indicator(LastDate(df), "ROC", calculate_roc(df, RocPeriod)),
       Indicator(LastDate(df), "Williams_R", calculate_williams_r(df, DefaultPeriod)) >>

\* The list returned, or the IndexError of the first data['Date'].iloc[-1].
calculate_technical_indicators(df, ticker) ==
    IF LastDate(df).k = "err"
    THEN [exc |-> "IndexError", vals |-> <<>>, recs |-> <<>>]
    ELSE [exc |-> "none", vals |-> <<>>, recs |-> IndicatorRows(df)]

(***************************************************************************)
(* State: the bar series `data`, the function applied to it (`call`) and   *)
(* what the call returned or raised (`ret`); `sched` is the run of         *)
(* schedule_historical_fetch and `db` the call of execute_query.           *)
(***************************************************************************)
NoCall == [fn |-> "none", period |-> 0]

NoRet == [exc |-> "none", vals |-> <<>>, recs |-> <<>>]

Bar(date, h, l, c, v) ==
    [Date |-> date, high_price |-> h, low_price |-> l, close_price |-> c, volume |-> v]

\* schedule_historical_fetch not started, execute_query not called.
NoRun == [pc |-> "idle"]

NoQuery == [pc |-> "idle"]

Init == data = <<>> /\ call = NoCall /\ ret = NoRet /\ sched = NoRun /\ db = NoQuery

\* The next row of the frame: dates strictly increase.
AppendRow(b) ==
    /\ call = NoCall
    /\ data' = Append(data, [b EXCEPT !.Date = Whole(Len(data) + 1)])
    /\ UNCHANGED <<call, ret, sched, db>>

\* A call that also stores a derived column on the caller's frame, as
\* data['price_range'] = data['high_price'] - data['low_price'] would.
InvokeStoringColumn(fn, period, vals) ==
    /\ call = NoCall
    /\ call' = [fn |-> fn, period |-> period]
    /\ ret' = IF \E i \in 1..Len(vals) : vals[i].k = "err"
              THEN [NoRet EXCEPT !.exc = "IndexError"]
              ELSE [NoRet EXCEPT !.vals = vals]
    /\ data' = [j \in 1..Len(data) |->
                   data[j] @@ ("price_range" :> Sub(data[j].high_price, data[j].low_price))]
    /\ UNCHANGED <<sched, db>>

\* A call returning the tuple vals, or raising the IndexError met on the way.
Invoke(fn, period, vals) ==
    /\ call = NoCall
    /\ call' = [fn |-> fn, period |-> period]
    /\ ret' = IF \E i \in 1..Len(vals) : vals[i].k = "err"
              THEN [NoRet EXCEPT !.exc = "IndexError"]
              ELSE [NoRet EXCEPT !.vals = vals]
    /\ UNCHANGED <<data, sched, db>>

Called(fn) == call.fn = fn /\ ret.exc = "none"

(***************************************************************************)
(* Moving averages on short series, closes possibly missing.               *)
(***************************************************************************)
MaxMABars == 3

MACloses == {Whole(1), Whole(2), Whole(4), NaN}

CataloguePeriods == {DefaultPeriod, 20, 50, 100, 200}

SmaPeriods == {2, 3} \cup CataloguePeriods

EmaPeriods == {3} \cup CataloguePeriods

AppendClose ==
    /\ Len(data) < MaxMABars
    /\ \E c \in MACloses : AppendRow(Bar(0, c, c, c, Whole(1)))

CallSma == \E p \in SmaPeriods : Invoke("calculate_sma", p, <<calculate_sma(data, p)>>)

CallEma == \E p \in EmaPeriods : Invoke("calculate_ema", p, <<calculate_ema(data, p)>>)

NextMA == AppendClose \/ CallSma \/ CallEma

SpecMA == Init /\ [][NextMA]_vars

(***************************************************************************)
(* Windowed indicators on series of up to MaxBars bars in which the bar    *)
(* changes at most MaxChanges times.  A bar is <<high, low, close,         *)
(* volume>>; low <= close <= high is not enforced by the code, so some     *)
(* bars break it.                                                          *)
(***************************************************************************)
MaxBars == 21

MaxChanges == 1

SameBar(a, b) == [a EXCEPT !.Date = b.Date] = b

Changes(df) == Cardinality({i \in 2..Len(df) : ~SameBar(df[i], df[i - 1])})

AppendFrom(bars) ==
    /\ Len(data) < MaxBars
    /\ \E q \in bars :
          LET b == Bar(Whole(Len(data) + 1), Whole(q[1]), Whole(q[2]), Whole(q[3]), Whole(q[4]))
          IN  /\ IF Len(data) = 0 THEN TRUE
                 ELSE IF SameBar(b, data[Len(data)]) THEN TRUE
                 ELSE Changes(data) < MaxChanges
              /\ AppendRow(b)

\* Closes only: RSI and the Bollinger bands.
CloseBars == {<<10, 10, 10, 1>>, <<11, 11, 11, 1>>, <<8, 8, 8, 1>>}

AppendCloseBar == AppendFrom(CloseBars)

CallRsi == Invoke("calculate_rsi", DefaultPeriod, <<calculate_rsi(data, DefaultPeriod)>>)

CallBollingerBands ==
    Invoke("calculate_bollinger_bands", BollingerWindow,
           calculate_bollinger_bands(data, BollingerWindow, NumStdDev))

NextClose == AppendCloseBar \/ CallRsi \/ CallBollingerBands

SpecClose == Init /\ [][NextClose]_vars

\* High/low ranges: stochastic %K and Williams %R.
RangeBars == {<<10, 10, 10, 1>>, <<10, 10, 11, 1>>, <<12, 10, 10, 1>>, <<12, 9, 11, 1>>}

AppendRangeBar == AppendFrom(RangeBars)

CallStochastic ==
    Invoke("calculate_stochastic", DefaultPeriod, <<calculate_stochastic(data, DefaultPeriod)>>)

CallWilliamsR ==
    Invoke("calculate_williams_r", DefaultPeriod, <<calculate_williams_r(data, DefaultPeriod)>>)

NextRange == AppendRangeBar \/ CallStochastic \/ CallWilliamsR

SpecRange == Init /\ [][NextRange]_vars

\* Directional movement: ADX.
TrendBars == {<<10, 10, 10, 1>>, <<12, 10, 10, 1>>, <<12, 9, 11, 1>>}

AppendTrendBar == AppendFrom(TrendBars)

CallAdx == Invoke("calculate_adx", DefaultPeriod, <<calculate_adx(data, DefaultPeriod)>>)

NextTrend == AppendTrendBar \/ CallAdx

SpecTrend == Init /\ [][NextTrend]_vars

\* Ranges with volume: Chaikin money flow.
FlowBars == {<<10, 10, 10, 1>>, <<10, 10, 11, 1>>, <<12, 9, 11, 2>>, <<12, 10, 10, 0>>}

AppendFlowBar == AppendFrom(FlowBars)

CallCmf == Invoke("calculate_cmf", CmfPeriod, <<calculate_cmf(data, CmfPeriod)>>)

NextFlow == AppendFlowBar \/ CallCmf

SpecFlow == Init /\ [][NextFlow]_vars

\* True range with gaps between one bar's close and the next bar's range: ATR.
AtrBars == {<<10, 10, 10, 1>>, <<13, 12, 12, 1>>, <<12, 9, 11, 1>>}

AppendAtrBar == AppendFrom(AtrBars)

CallAtr == Invoke("calculate_atr", DefaultPeriod, <<calculate_atr(data, DefaultPeriod)>>)

NextAtr == AppendAtrBar \/ CallAtr

SpecAtr == Init /\ [][NextAtr]_vars

\* Cumulative volume measures: OBV and the accumulation/distribution line.
VolumeBars == {<<10, 10, 10, 3>>, <<12, 9, 11, 2>>, <<12, 8, 9, 5>>}

AppendVolumeBar == AppendFrom(VolumeBars)

CallObv == Invoke("calculate_obv", 0, <<calculate_obv(data)>>)

CallAdLine == Invoke("calculate_ad_line", 0, <<calculate_ad_line(data)>>)

NextVolume == AppendVolumeBar \/ CallObv \/ CallAdLine

SpecVolume == Init /\ [][NextVolume]_vars

\* Closes that double, rise and fall: rate of change.
RocBars == {<<10, 10, 10, 1>>, <<20, 20, 20, 1>>, <<16, 16, 16, 1>>}

AppendRocBar == AppendFrom(RocBars)

CallRoc == Invoke("calculate_roc", RocPeriod, <<calculate_roc(data, RocPeriod)>>)

NextRoc == AppendRocBar \/ CallRoc

SpecRoc == Init /\ [][NextRoc]_vars

\* Flat bars at two price levels, constant or with one change of level: the
\* indicators with a zero-range or zero-change boundary.
ConstantBars == {<<10, 10, 10, 1>>, <<7, 7, 7, 3>>}

AppendConstantBar == AppendFrom(ConstantBars)

NextConstant ==
    AppendConstantBar \/ CallAtr \/ CallBollingerBands \/ CallRsi \/ CallStochastic
        \/ CallWilliamsR

SpecConstant == Init /\ [][NextConstant]_vars

(***************************************************************************)
(* The catalogue builder on series of up to MaxBars bars.  The closes are  *)
(* level, which keeps the exponential averages exact fractions of small    *)
(* integers; highs, lows and volumes vary.                                 *)
(***************************************************************************)
CatalogueBars == {<<10, 10, 10, 1>>, <<12, 9, 10, 2>>}

Tickers == {"AAPL"}

AppendCatalogueBar == AppendFrom(CatalogueBars)

CalculateTechnicalIndicators ==
    /\ call = NoCall
    /\ \E ticker \in Tickers :
          /\ call' = [fn |-> "calculate_technical_indicators", period |-> 0]
          /\ ret' = calculate_technical_indicators(data, ticker)
    /\ UNCHANGED <<data, sched, db>>

NextCatalogue == AppendCatalogueBar \/ CalculateTechnicalIndicators

SpecCatalogue == Init /\ [][NextCatalogue]_vars

(***************************************************************************)
(* Every indicator function and the catalogue builder, called one after    *)
(* the other on the caller's frame: a call returns to the caller, who may  *)
(* call again or append bars.  The series repeat one bar, flat or ranging.  *)
(***************************************************************************)
AppendFrameBar == AppendFrom(CatalogueBars) /\ Changes(data') = 0

CallMacd == Invoke("calculate_macd", 0, calculate_macd(data))

CallParabolicSar == Invoke("calculate_parabolic_sar", 0, <<calculate_parabolic_sar(data)>>)

Return ==
    /\ call # NoCall
    /\ call' = NoCall
    /\ ret' = NoRet
    /\ UNCHANGED <<data, sched, db>>

NextFrame ==
    \/ AppendFrameBar
    \/ CallSma \/ CallEma \/ CallRsi \/ CallMacd \/ CallStochastic \/ CallBollingerBands
    \/ CallAtr \/ CallAdx \/ CallParabolicSar \/ CallObv \/ CallCmf \/ CallAdLine
    \/ CallRoc \/ CallWilliamsR
    \/ CalculateTechnicalIndicators
    \/ Return

SpecFrame == Init /\ [][NextFrame]_vars

(***************************************************************************)
(* The normalizer (data_normalizer.py) on raw frames of up to MaxRawRows   *)
(* rows.  A raw row is <<Open, High, Low, Close, Adj Close, Volume>> under *)
(* the date index, with missing cells.                                     *)
(***************************************************************************)
RawColumns == {"Open", "High", "Low", "Close", "Adj Close", "Volume"}

\* The columns argument of data.rename.
Renamed(c) ==
    CASE c = "Open" -> "open_price"
      [] c = "High" -> "high_price"
      [] c = "Low" -> "low_price"
      [] c = "Close" -> "close_price"
      [] c = "Adj Close" -> "adjusted_close_price"
      [] c = "Volume" -> "volume"

\* fillna(method="ffill"): a null cell takes the last non-null cell above it.
RECURSIVE FFillAt(_, _)
FFillAt(s, i) ==
    IF i = 0 THEN NaN ELSE IF s[i].k # "nan" THEN s[i] ELSE FFillAt(s, i - 1)

FFill(s) == [i \in 1..SLen(s) |-> FFillAt(s, i)]

\* fillna(method="bfill"): a null cell takes the first non-null cell below it.
RECURSIVE BFillAt(_, _)
BFillAt(s, i) ==
    IF i > SLen(s) THEN NaN ELSE IF s[i].k # "nan" THEN s[i] ELSE BFillAt(s, i + 1)

\* The backward fill left out.
BFillSkipped(s) == s

BFill(s) == [i \in 1..SLen(s) |-> BFillAt(s, i)]

\* The frame after normalize_yfinance_data, which works in place.
NormalizedFrame(df) ==
    LET filled == [c \in RawColumns |-> BFill(FFill(Col(df, c)))]
    IN  [i \in 1..Len(df) |->
            [Date |-> df[i].index,
             open_price |-> filled["Open"][i],
             high_price |-> filled["High"][i],
             low_price |-> filled["Low"][i],
             close_price |-> filled["Close"][i],
             adjusted_close_price |-> filled["Adj Close"][i],
             volume |-> filled["Volume"][i],
             price_range |-> Sub(filled["High"][i], filled["Low"][i]),
             average_price |-> Div(Add(filled["High"][i], filled["Low"][i]), Whole(2))]]

normalize_yfinance_data(df) ==
    IF Len(df) = 0 THEN [exc |-> "ValueError", vals |-> <<>>, recs |-> <<>>]
    ELSE [exc |-> "none", vals |-> <<>>, recs |-> NormalizedFrame(df)]

MaxRawRows == 3

\* <<Open, High, Low, Close, Adj Close, Volume>>, 0 for a null cell.
RawRows ==
    {<<150, 155, 149, 154, 154, 1000>>,
     <<0, 156, 150, 155, 155, 1200>>,
     <<152, 0, 151, 156, 156, 0>>,
     <<160, 170, 0, 165, 165, 2000>>,
     <<0, 0, 0, 0, 0, 0>>,
     <<10, 12, 9, 11, 11, 5>>}

Cell(n) == IF n = 0 THEN NaN ELSE Whole(n)

RawRow(index, q) ==
    [c \in RawColumns \cup {"index"} |->
        CASE c = "index" -> Whole(index)
          [] c = "Open" -> Cell(q[1])
          [] c = "High" -> Cell(q[2])
          [] c = "Low" -> Cell(q[3])
          [] c = "Close" -> Cell(q[4])
          [] c = "Adj Close" -> Cell(q[5])
          [] c = "Volume" -> Cell(q[6])]

AppendRawRow ==
    /\ call = NoCall
    /\ Len(data) < MaxRawRows
    /\ \E q \in RawRows : data' = Append(data, RawRow(Len(data) + 1, q))
    /\ UNCHANGED <<call, ret, sched, db>>

\* The call: the frame passed is renamed, filled and extended in place and
\* returned.
NormalizeYfinanceData ==
    /\ call = NoCall
    /\ call' = [fn |-> "normalize_yfinance_data", period |-> 0]
    /\ ret' = normalize_yfinance_data(data)
    /\ data' = IF Len(data) = 0 THEN data ELSE NormalizedFrame(data)
    /\ UNCHANGED <<sched, db>>

NextNormalize == AppendRawRow \/ NormalizeYfinanceData

SpecNormalize == Init /\ [][NextNormalize]_vars

(***************************************************************************)
(* sanitize (db_utils.py) on the cells of one statement row, as the        *)
(* balance-sheet and cash-flow inserts apply it column by column.          *)
(***************************************************************************)
\* Python values: None, bool, int, float and str.
None == [t |-> "NoneType"]

PyBool(b) == [t |-> "bool", v |-> b]

PyInt(n) == [t |-> "int", v |-> n]

PyFloat(x) == [t |-> "float", v |-> x]

PyStr(s) == [t |-> "str", v |-> s]

\* bool(value)
Truthy(value) ==
    CASE value.t = "NoneType" -> FALSE
      [] value.t = "bool" -> value.v
      [] value.t = "int" -> value.v # 0
      [] value.t = "float" -> value.v # Whole(0)
      [] value.t = "str" -> value.v # ""

\* isinstance(value, float) and math.isnan(value)
IsFloatNaN(value) == value.t = "float" /\ value.v.k = "nan"

sanitize(value) == IF Truthy(value) /\ ~IsFloatNaN(value) THEN value ELSE None

MaxColumns == 2

\* What row_data.get(column) can hold: None for an absent column.
CellValues ==
    {None, PyFloat(NaN), PyStr(""), PyInt(0), PyFloat(Whole(0)), PyBool(FALSE),
     PyInt(5), PyFloat(Num(5, 2)), PyStr("USD"), PyBool(TRUE), PyFloat(PInf)}

AppendCell ==
    /\ call = NoCall
    /\ Len(data) < MaxColumns
    /\ \E v \in CellValues : data' = Append(data, v)
    /\ UNCHANGED <<call, ret, sched, db>>

\* tuple(sanitize(row_data.get(column)) for column in columns)
SanitizeRow ==
    /\ call = NoCall
    /\ call' = [fn |-> "sanitize", period |-> 0]
    /\ ret' = [NoRet EXCEPT !.vals = [i \in 1..Len(data) |-> sanitize(data[i])]]
    /\ UNCHANGED <<data, sched, db>>

NextSanitize == AppendCell \/ SanitizeRow

SpecSanitize == Init /\ [][NextSanitize]_vars

(***************************************************************************)
(* schedule_historical_fetch (scheduler.py): the tickers one after the     *)
(* other, each through fetch, normalize, insert_stock_data,                *)
(* calculate_technical_indicators and insert_technical_indicators.  Any    *)
(* step may raise.  `sched.trace` records the steps started, `sched.stock` *)
(* and `sched.indicators` the tickers whose rows the inserts stored.       *)
(***************************************************************************)
MaxTickers == 3

TickerNames == {"AAPL", "MSFT", "TSLA"}

\* What fetch_all_tickers can return: rows of the tickers table, none twice.
TickerLists ==
    {ts \in UNION {[1..n -> TickerNames] : n \in 0..MaxTickers} :
        \A i, j \in 1..Len(ts) : i # j => ts[i] # ts[j]}

\* What fetch_yfinance_data can return: no rows, or rows with and without gaps.
FetchedFrames ==
    {<<>>,
     <<RawRow(1, <<150, 155, 149, 154, 154, 1000>>)>>,
     <<RawRow(1, <<0, 156, 150, 155, 155, 1200>>),
       RawRow(2, <<150, 155, 149, 155, 155, 1000>>)>>}

\* The statement after a step of the loop body; "next" is the next
\* iteration of the loop.
StepAfterIndicatorsFirst(step) ==
    CASE step = "fetch" -> "normalize"
      [] step = "normalize" -> "calculate_technical_indicators"
      [] step = "calculate_technical_indicators" -> "insert_technical_indicators"
      [] step = "insert_technical_indicators" -> "insert_stock_data"
      [] step = "insert_stock_data" -> "next"

StepAfter(step) ==
    CASE step = "fetch" -> "normalize"
      [] step = "normalize" -> "insert_stock_data"
      [] step = "insert_stock_data" -> "calculate_technical_indicators"
      [] step = "calculate_technical_indicators" -> "insert_technical_indicators"
      [] step = "insert_technical_indicators" -> "next"

Ticker == sched.tickers[sched.k]

\* The run with `step` of the current ticker recorded as started.
Started(step) == [sched EXCEPT !.trace = Append(@, <<step, Ticker>>)]

\* The run after `step` completed: on to the next statement, the next
\* ticker, or the end of the loop.
Completed(s, step) ==
    IF StepAfter(step) # "next" THEN [s EXCEPT !.pc = StepAfter(step)]
    ELSE IF s.k < Len(s.tickers) THEN [s EXCEPT !.pc = "fetch", !.k = @ + 1]
    ELSE [s EXCEPT !.pc = "done"]

\* A step's exception caught and logged, the loop going on with the next
\* ticker.
RaisedThenNextTicker(s, e) ==
    IF s.k < Len(s.tickers) THEN [s EXCEPT !.pc = "fetch", !.k = @ + 1]
    ELSE [s EXCEPT !.pc = "done"]

\* The run after a step raised e: nothing in the loop catches it.
Raised(s, e) == [s EXCEPT !.pc = "raised", !.exc = e]

\* tickers = fetch_all_tickers(); if not tickers: return
NewRun ==
    [pc |-> "fetch", tickers |-> <<>>, k |-> 1, trace |-> <<>>, stock |-> {},
     indicators |-> {}, exc |-> "none"]

StartRun ==
    /\ sched.pc = "idle"
    /\ \/ sched' = Raised(NewRun, "Exception")
       \/ \E ts \in TickerLists :
             sched' = IF ts = <<>> THEN [NewRun EXCEPT !.pc = "done"]
                      ELSE [NewRun EXCEPT !.tickers = ts]
    /\ UNCHANGED <<data, call, ret, db>>

\* raw_data = fetch_yfinance_data(ticker, start_date, end_date)
Fetch ==
    /\ sched.pc = "fetch"
    /\ \/ /\ sched' = Raised(Started("fetch"), "Exception")
          /\ UNCHANGED data
       \/ \E frame \in FetchedFrames :
             /\ sched' = Completed(Started("fetch"), "fetch")
             /\ data' = frame
    /\ UNCHANGED <<call, ret, db>>

\* normalized_data = normalize_yfinance_data(raw_data)
Normalize ==
    /\ sched.pc = "normalize"
    /\ IF normalize_yfinance_data(data).exc # "none"
       THEN /\ sched' = Raised(Started("normalize"), normalize_yfinance_data(data).exc)
            /\ UNCHANGED data
       ELSE /\ sched' = Completed(Started("normalize"), "normalize")
            /\ data' = NormalizedFrame(data)
    /\ UNCHANGED <<call, ret, db>>

\* insert_stock_data and insert_technical_indicators (db_utils): the rows of
\* `ticker` are added to what the table holds, or the insert raises and the
\* table is as before.
insert_stock_data(stored, ticker, ok) ==
    IF ok THEN [rows |-> stored \cup {ticker}, exc |-> "none"]
    ELSE [rows |-> stored, exc |-> "Exception"]

insert_technical_indicators(stored, ticker, ok) ==
    IF ok THEN [rows |-> stored \cup {ticker}, exc |-> "none"]
    ELSE [rows |-> stored, exc |-> "Exception"]

\* insert_stock_data(normalized_data, ticker)
InsertStockData ==
    /\ sched.pc = "insert_stock_data"
    /\ \E ok \in BOOLEAN :
          LET r == insert_stock_data(sched.stock, Ticker, ok)
              s == [Started("insert_stock_data") EXCEPT !.stock = r.rows]
          IN  sched' = IF r.exc = "none" THEN Completed(s, "insert_stock_data")
                       ELSE Raised(s, r.exc)
    /\ UNCHANGED <<data, call, ret, db>>

\* technical_indicators_data = calculate_technical_indicators(raw_data, ticker)
Calculate ==
    /\ sched.pc = "calculate_technical_indicators"
    /\ ret' = calculate_technical_indicators(data, Ticker)
    /\ sched' = IF ret'.exc # "none"
                THEN Raised(Started("calculate_technical_indicators"), ret'.exc)
                ELSE Completed(Started("calculate_technical_indicators"),
                               "calculate_technical_indicators")
    /\ UNCHANGED <<data, call, db>>

\* if technical_indicators_data: insert_technical_indicators(...)
InsertTechnicalIndicators ==
    /\ sched.pc = "insert_technical_indicators"
    /\ IF ret.recs # <<>>
       THEN \E ok \in BOOLEAN :
               LET r == insert_technical_indicators(sched.indicators, Ticker, ok)
                   s == [Started("insert_technical_indicators")
                            EXCEPT !.indicators = r.rows]
               IN  sched' = IF r.exc = "none"
                            THEN Completed(s, "insert_technical_indicators")
                            ELSE Raised(s, r.exc)
       ELSE sched' = Completed(sched, "insert_technical_indicators")
    /\ UNCHANGED <<data, call, ret, db>>

NextSchedule ==
    StartRun \/ Fetch \/ Normalize \/ InsertStockData \/ Calculate \/ InsertTechnicalIndicators

SpecSchedule == Init /\ [][NextSchedule]_vars

(***************************************************************************)
(* execute_query (db_utils.py): one call, statement by statement. `db.ops` *)
(* records the calls made on the connection in use, `db.caught` the        *)
(* exception the except clause caught, `db.exc` the one propagating.       *)
(***************************************************************************)
CallerConnection == [t |-> "connection", id |-> "caller"]

NewConnection == [t |-> "connection", id |-> "new"]

\* should_close_connection = connection is None
should_close_connection_always(connection) == TRUE

should_close_connection(connection) == connection = None

\* The call after `op` on the connection returned, and after it raised e
\* inside the try block.
Did(q, op, pc) == [q EXCEPT !.pc = pc, !.ops = Append(@, op)]

Caught(q, op, e) == [q EXCEPT !.pc = "except", !.ops = Append(@, op), !.caught = e]

ExecuteQuery ==
    /\ db.pc = "idle"
    /\ \E connection \in {None, CallerConnection}, fetch_one, fetch_all \in BOOLEAN :
          db' = [pc |-> "connect", supplied |-> connection # None,
                 fetch_one |-> fetch_one, fetch_all |-> fetch_all,
                 should_close_connection |-> should_close_connection(connection),
                 connection |-> connection, ops |-> <<>>,
                 caught |-> "none", exc |-> "none"]
    /\ UNCHANGED <<data, call, ret, sched>>

\* connection = connection or get_db_connection()
GetDbConnection ==
    /\ db.pc = "connect"
    /\ IF db.connection # None
       THEN db' = [db EXCEPT !.pc = "cursor"]
       ELSE \/ db' = [Did(db, "get_db_connection", "cursor") EXCEPT !.connection = NewConnection]
            \/ \E e \in {"EnvironmentError", "OperationalError"} :
                  db' = [Did(db, "get_db_connection", "raised") EXCEPT !.exc = e]
    /\ UNCHANGED <<data, call, ret, sched>>

\* with connection.cursor() as cursor:
Cursor ==
    /\ db.pc = "cursor"
    /\ \/ db' = Did(db, "cursor", "execute")
       \/ db' = Caught(db, "cursor", "InterfaceError")
    /\ UNCHANGED <<data, call, ret, sched>>

\* cursor.execute(query, params), then the branch on fetch_one, fetch_all
Execute ==
    /\ db.pc = "execute"
    /\ \/ db' = Did(db, "execute", IF db.fetch_one THEN "fetchone"
                                   ELSE IF db.fetch_all THEN "fetchall" ELSE "commit")
       \/ db' = Caught(db, "execute", "ProgrammingError")
    /\ UNCHANGED <<data, call, ret, sched>>

\* return cursor.fetchone()
FetchOne ==
    /\ db.pc = "fetchone"
    /\ \/ db' = Did(db, "fetchone", "finally")
       \/ db' = Caught(db, "fetchone", "ProgrammingError")
    /\ UNCHANGED <<data, call, ret, sched>>

\* return cursor.fetchall()
FetchAll ==
    /\ db.pc = "fetchall"
    /\ \/ db' = Did(db, "fetchall", "finally")
       \/ db' = Caught(db, "fetchall", "ProgrammingError")
    /\ UNCHANGED <<data, call, ret, sched>>

\* connection.commit()
Commit ==
    /\ db.pc = "commit"
    /\ \/ db' = Did(db, "commit", "finally")
       \/ db' = Caught(db, "commit", "OperationalError")
    /\ UNCHANGED <<data, call, ret, sched>>

\* except Exception as e: rollback of an own connection (which may itself
\* raise), log, raise
Except ==
    /\ db.pc = "except"
    /\ IF db.should_close_connection
       THEN \/ db' = [Did(db, "rollback", "finally") EXCEPT !.exc = db.caught]
            \/ db' = [Did(db, "rollback", "finally") EXCEPT !.exc = "InterfaceError"]
       ELSE db' = [db EXCEPT !.pc = "finally", !.exc = db.caught]
    /\ UNCHANGED <<data, call, ret, sched>>

\* finally: close of an own connection; then the return or the exception
Finally ==
    /\ db.pc = "finally"
    /\ LET exit == IF db.exc = "none" THEN "returned" ELSE "raised"
       IN  db' = IF db.should_close_connection THEN Did(db, "close", exit)
                 ELSE [db EXCEPT !.pc = exit]
    /\ UNCHANGED <<data, call, ret, sched>>

NextQuery ==
    ExecuteQuery \/ GetDbConnection \/ Cursor \/ Execute \/ FetchOne \/ FetchAll
        \/ Commit \/ Except \/ Finally

SpecQuery == Init /\ [][NextQuery]_vars

(***************************************************************************)
(* Properties of the moving averages.                                      *)
(***************************************************************************)
Closes == Col(data, "close_price")

AllNum(s, lo, hi) == \A j \in lo..hi : j >= 1 /\ j <= Len(s) /\ s[j].k = "num" /\ s[j].r = 0

RECURSIVE WholeSum(_, _, _)
WholeSum(s, lo, hi) == IF lo > hi THEN 0 ELSE WholeSum(s, lo, hi - 1) + s[hi].n

RECURSIVE Pow(_, _)
Pow(b, e) == IF e = 0 THEN 1 ELSE b * Pow(b, e - 1)

\* C3: on a non-empty series calculate_sma(data, N) returns the arithmetic
\* mean of the last N closes when the series has at least N bars (their
\* closes present), and null when it has fewer than N bars.
C3_SmaIsTrailingMean ==
    (call.fn = "calculate_sma" /\ Len(data) >= 1) =>
        LET N == call.period
            n == Len(data)
        IN  /\ ret.exc = "none"
            /\ (n >= N /\ AllNum(Closes, n - N + 1, n)) =>
                   ret.vals[1] = Num(WholeSum(Closes, n - N + 1, n), N)
            /\ (n < N) => IsNull(ret.vals[1])

C3_Witness ==
    /\ Called("calculate_sma")
    /\ call.period = 3 /\ Len(data) = 3
    /\ Closes[1] # Closes[2] /\ Closes[2] # Closes[3]
    /\ IsNum(ret.vals[1])

\* C4: calculate_ema returns a non-null value for every catalogue period
\* as soon as one close is present, however short the series; on a one-bar
\* series calculate_sma with the same period returns null.
C4_EmaToleratesShortHistory ==
    /\ (call.fn = "calculate_ema" /\ call.period \in CataloguePeriods
          /\ \E j \in 1..Len(data) : IsNum(Closes[j]))
        => (ret.exc = "none" /\ IsNum(ret.vals[1]))
    /\ (call.fn = "calculate_sma" /\ call.period \in CataloguePeriods /\ Len(data) = 1)
        => (ret.exc = "none" /\ IsNull(ret.vals[1]))

C4_Witness ==
    /\ Called("calculate_ema")
    /\ call.period = 200 /\ Len(data) = 2
    /\ IsNull(Closes[1]) /\ IsNum(Closes[2])
    /\ IsNum(ret.vals[1])

\* The recursion e_1 = c_1, e_t = a*c_t + (1 - a)*e_(t-1), a = 2/(N+1).
RECURSIVE SeededRecursion(_, _, _)
SeededRecursion(s, N, t) ==
    IF t = 1 THEN s[1]
    ELSE Add(Mul(Num(2, N + 1), s[t]), Mul(Num(N - 1, N + 1), SeededRecursion(s, N, t - 1)))

\* sum over i < t of (N-1)^i * (N+1)^(t-1-i) * x(i), x(i) the i-th close back.
RECURSIVE WeightedSum(_, _, _, _, _)
WeightedSum(s, N, t, i, unit) ==
    IF i = t THEN 0
    ELSE Pow(N - 1, i) * Pow(N + 1, t - 1 - i) * (IF unit THEN 1 ELSE s[t - i].n)
         + WeightedSum(s, N, t, i + 1, unit)

CatalogueCalled == call.fn = "calculate_technical_indicators"

\* The number of bars below which the rolling window of an indicator is
\* not filled; 0 for the indicators without one.
Lookback(name) ==
    CASE name \in {"SMA", "RSI", "Stochastic", "ATR", "Williams_R"} -> DefaultPeriod
      [] name = "ADX" -> DefaultPeriod + 1
      [] name = "ROC" -> RocPeriod + 1
      [] name \in {"SMA_20", "Bollinger_Upper", "Bollinger_Lower", "CMF"} -> 20
      [] name = "SMA_50" -> 50
      [] name = "SMA_100" -> 100
      [] name = "SMA_200" -> 200
      [] OTHER -> 0

\* C1: on a series of at least one bar calculate_technical_indicators
\* returns, without raising, 23 records with pairwise distinct names, each
\* dated with the last bar's Date; a record whose lookback is unmet holds
\* null, and the exponential averages and MACD are produced all the same.
C1_CatalogueOfTwentyThree ==
    (CatalogueCalled /\ Len(data) >= 1) =>
        /\ ret.exc = "none"
        /\ Len(ret.recs) = 23
        /\ \A i, j \in 1..Len(ret.recs) :
              i # j => ret.recs[i].indicator_name # ret.recs[j].indicator_name
        /\ \A i \in 1..Len(ret.recs) :
              LET rec == ret.recs[i]
              IN  /\ rec.date = data[Len(data)].Date
                  /\ rec.value.k # "err"
                  /\ Len(data) < Lookback(rec.indicator_name) => IsNull(rec.value)
                  /\ rec.indicator_name \in
                        {"EMA", "EMA_20", "EMA_50", "EMA_100", "EMA_200", "MACD", "MACD_Signal"}
                     => IsNum(rec.value)

C1_Witness ==
    /\ CatalogueCalled /\ ret.exc = "none"
    /\ Len(data) = DefaultPeriod
    /\ Len(ret.recs) = 23
    /\ ret.recs[1].indicator_name = "SMA" /\ IsNum(ret.recs[1].value)
    /\ ret.recs[2].indicator_name = "SMA_20" /\ IsNull(ret.recs[2].value)
    /\ ret.recs[23].date = data[DefaultPeriod].Date

\* C2: on a series of zero bars calculate_technical_indicators returns an
\* empty list and does not raise.
C2_EmptySeriesYieldsEmptyList ==
    (CatalogueCalled /\ Len(data) = 0) => (ret.exc = "none" /\ ret.recs = <<>>)

(***************************************************************************)
(* Properties of the windowed indicators.                                  *)
(***************************************************************************)
\* The positions of the last w bars.
Window(w) == (Len(data) - w + 1)..Len(data)

SetMax(S) == CHOOSE x \in S : \A y \in S : y <= x

SetMin(S) == CHOOSE x \in S : \A y \in S : x <= y

\* No close of the last 14 bars is below the close before it (the average
\* loss is zero); some close is above the close before it (the average
\* gain is positive).
NoDecrease ==
    \A j \in Window(DefaultPeriod) : j >= 2 => Closes[j].n >= Closes[j - 1].n

SomeIncrease ==
    \E j \in Window(DefaultPeriod) : j >= 2 /\ Closes[j].n > Closes[j - 1].n

\* C6 as stated: with at least 14 bars and a zero 14-bar average loss,
\* calculate_rsi returns exactly 100 whatever the average gain is.
C6_RsiSaturatesAtZeroLoss ==
    (call.fn = "calculate_rsi" /\ Len(data) >= DefaultPeriod /\ NoDecrease) =>
        (ret.exc = "none" /\ ret.vals[1] = Whole(100))

\* C6 amended: with at least 14 bars and a zero 14-bar average loss,
\* calculate_rsi never raises; it returns exactly 100 when the average gain
\* is positive and null when the average gain is zero as well.
C6_RsiAtZeroLoss ==
    (call.fn = "calculate_rsi" /\ Len(data) >= DefaultPeriod /\ NoDecrease) =>
        /\ ret.exc = "none"
        /\ SomeIncrease => ret.vals[1] = Whole(100)
        /\ ~SomeIncrease => IsNull(ret.vals[1])

C6_Witness ==
    /\ Called("calculate_rsi")
    /\ Len(data) >= DefaultPeriod /\ NoDecrease /\ SomeIncrease
    /\ ret.vals[1] = Whole(100)

\* The highest high and the lowest low of the last 14 bars.
HighestHigh == SetMax({data[j].high_price.n : j \in Window(DefaultPeriod)})

LowestLow == SetMin({data[j].low_price.n : j \in Window(DefaultPeriod)})

\* C7: with at least 14 bars whose highest high equals the lowest low over
\* the last 14, calculate_stochastic and calculate_williams_r return null
\* for every last close, never an infinity and never an exception.
C7_FlatRangeIsNull ==
    (call.fn \in {"calculate_stochastic", "calculate_williams_r"}
       /\ Len(data) >= DefaultPeriod /\ HighestHigh = LowestLow) =>
        (ret.exc = "none" /\ IsNull(ret.vals[1]))

\* The true range of bar j >= 2, in whole numbers.
TrueRangeAt(j) ==
    SetMax({data[j].high_price.n - data[j].low_price.n,
            Abs(data[j].high_price.n - data[j - 1].close_price.n),
            Abs(data[j].low_price.n - data[j - 1].close_price.n)})

\* C8: with all three 14-bar rolling means defined (15 bars or more) and a
\* zero 14-bar mean of true range, calculate_adx returns null, never an
\* infinity and never an exception.
C8_AdxNullOnZeroTrueRange ==
    (call.fn = "calculate_adx" /\ Len(data) >= DefaultPeriod + 1
       /\ \A j \in Window(DefaultPeriod) : TrueRangeAt(j) = 0) =>
        (ret.exc = "none" /\ IsNull(ret.vals[1]))

\* Money flow volume of bar j (high > low) and its sum over lo..hi.
RECURSIVE FlowVolume(_, _)
FlowVolume(lo, hi) ==
    IF lo > hi THEN Whole(0)
    ELSE Add(FlowVolume(lo, hi - 1),
             Num((2 * data[hi].close_price.n - data[hi].high_price.n - data[hi].low_price.n)
                   * data[hi].volume.n,
                 data[hi].high_price.n - data[hi].low_price.n))

RECURSIVE Volume(_, _)
Volume(lo, hi) == IF lo > hi THEN 0 ELSE Volume(lo, hi - 1) + data[hi].volume.n

\* C9: with at least 20 bars, calculate_cmf returns null when high = low on
\* every one of the last 20 bars, and sum(multiplier*volume)/sum(volume)
\* over the last 20 bars when high > low on each of them and the volume sum
\* is positive.
C9_CmfFlatAndRegular ==
    (call.fn = "calculate_cmf" /\ Len(data) >= CmfPeriod) =>
        /\ ret.exc = "none"
        /\ (\A j \in Window(CmfPeriod) : data[j].high_price = data[j].low_price)
              => IsNull(ret.vals[1])
        /\ ((\A j \in Window(CmfPeriod) : data[j].high_price.n > data[j].low_price.n)
              /\ Volume(Len(data) - CmfPeriod + 1, Len(data)) > 0)
              => ret.vals[1] = Div(FlowVolume(Len(data) - CmfPeriod + 1, Len(data)),
                                   Whole(Volume(Len(data) - CmfPeriod + 1, Len(data))))

C9_Witness ==
    /\ Called("calculate_cmf")
    /\ Len(data) >= CmfPeriod
    /\ \A j \in Window(CmfPeriod) : data[j].high_price = data[j].low_price
    /\ \E j \in Window(CmfPeriod) : data[j].close_price # data[j].low_price
    /\ IsNull(ret.vals[1])

\* The bands m +- k*sqrt(v) with m the mean of the last 20 closes and v the
\* sum of their squared deviations from m over `divisor`.
RECURSIVE SquareSum(_, _, _)
SquareSum(s, lo, hi) == IF lo > hi THEN 0 ELSE SquareSum(s, lo, hi - 1) + s[hi].n * s[hi].n

BandsWithDivisor(divisor) ==
    LET lo == Len(data) - BollingerWindow + 1
        S  == WholeSum(Closes, lo, Len(data))
        Q  == SquareSum(Closes, lo, Len(data))
        m  == Num(S, BollingerWindow)
        sd == FSqrt(Num(BollingerWindow * Q - S * S, BollingerWindow * divisor))
    IN  <<Add(m, Mul(Whole(NumStdDev), sd)), Sub(m, Mul(Whole(NumStdDev), sd))>>

\* C10 as stated: with at least 20 bars the bands are m +- 2s, s the
\* population standard deviation (divisor 20) of the last 20 closes; with
\* fewer than 20 bars both are null.
C10_BandsUsePopulationDeviation ==
    (call.fn = "calculate_bollinger_bands" /\ Len(data) >= 1) =>
        /\ ret.exc = "none"
        /\ Len(data) >= BollingerWindow => ret.vals = BandsWithDivisor(BollingerWindow)
        /\ Len(data) < BollingerWindow => (IsNull(ret.vals[1]) /\ IsNull(ret.vals[2]))

\* C10 amended: with at least 20 bars the bands are m +- 2s, s the sample
\* standard deviation (divisor 19) of the last 20 closes; with fewer than
\* 20 bars both are null.
C10_BandsUseSampleDeviation ==
    (call.fn = "calculate_bollinger_bands" /\ Len(data) >= 1) =>
        /\ ret.exc = "none"
        /\ Len(data) >= BollingerWindow => ret.vals = BandsWithDivisor(BollingerWindow - 1)
        /\ Len(data) < BollingerWindow => (IsNull(ret.vals[1]) /\ IsNull(ret.vals[2]))

C10_Witness ==
    /\ Called("calculate_bollinger_bands")
    /\ Len(data) >= BollingerWindow
    /\ \E i, j \in Window(BollingerWindow) : Closes[i] # Closes[j]
    /\ IsNum(ret.vals[1]) /\ IsNum(ret.vals[2])
    /\ ret.vals[1] # ret.vals[2]


\* The true range of bar j in whole numbers: high - low on the first bar,
\* else the largest of high - low, |high - previous close| and
\* |low - previous close|.
TrueRangeOf(j) ==
    IF j = 1 THEN data[1].high_price.n - data[1].low_price.n ELSE TrueRangeAt(j)

RECURSIVE TrueRangeSum(_, _)
TrueRangeSum(lo, hi) == IF lo > hi THEN 0 ELSE TrueRangeSum(lo, hi - 1) + TrueRangeOf(hi)

\* C11: calculate_atr returns the mean of the true range over the last 14
\* bars, the first bar of the series counting with high - low, and null on
\* fewer than 14 bars.
C11_AtrIsMeanTrueRange ==
    call.fn = "calculate_atr" =>
        /\ ret.exc = (IF Len(data) = 0 THEN "IndexError" ELSE "none")
        /\ (Len(data) >= 1 /\ Len(data) < DefaultPeriod) => IsNull(ret.vals[1])
        /\ Len(data) >= DefaultPeriod =>
              ret.vals[1] = Num(TrueRangeSum(Len(data) - DefaultPeriod + 1, Len(data)),
                                DefaultPeriod)

C11_Witness ==
    /\ Called("calculate_atr")
    /\ Len(data) = DefaultPeriod
    /\ data[1].high_price.n > data[1].low_price.n
    /\ IsNum(ret.vals[1])
    /\ ret.vals[1] # Whole(0)

\* The series before its last bar, and the last bar.
Earlier == SubSeq(data, 1, Len(data) - 1)

LastBar == data[Len(data)]

\* C12: for every non-empty series S, a single bar included, and every bar
\* b appended to it, calculate_obv(S + [b]) is calculate_obv(S) plus
\* volume(b) * sign(close(b) - close(last bar of S)).
C12_ObvAddsOneTerm ==
    (call.fn = "calculate_obv" /\ Len(data) >= 2) =>
        /\ ret.exc = "none"
        /\ IsNum(ret.vals[1])
        /\ ret.vals[1] =
              Add(calculate_obv(Earlier),
                  Whole(LastBar.volume.n
                          * Sgn(LastBar.close_price.n - data[Len(data) - 1].close_price.n)))

\* C13: for every non-empty series S, flat bars (high = low) included, and
\* every appended bar b with high > low, calculate_ad_line(S + [b]) is
\* calculate_ad_line(S) plus volume(b) * ((close - low) - (high - close)) /
\* (high - low) of b.
C13_AdLineAddsOneTerm ==
    (call.fn = "calculate_ad_line" /\ Len(data) >= 2
       /\ LastBar.high_price.n > LastBar.low_price.n) =>
        /\ ret.exc = "none"
        /\ IsNum(ret.vals[1])
        /\ ret.vals[1] =
              Add(calculate_ad_line(Earlier),
                  Num(LastBar.volume.n
                        * (2 * LastBar.close_price.n - LastBar.high_price.n
                             - LastBar.low_price.n),
                      LastBar.high_price.n - LastBar.low_price.n))


\* The close RocPeriod bars before the last one.
CloseBefore == Closes[Len(data) - RocPeriod].n

\* C14: calculate_roc with period 12 returns null below 13 bars and
\* (close_last / close_(last-12) - 1) * 100 from 13 bars on: 100, not 1,
\* when the last close is twice the close 12 bars earlier.
C14_RocIsPercentChange ==
    call.fn = "calculate_roc" =>
        /\ ret.exc = (IF Len(data) = 0 THEN "IndexError" ELSE "none")
        /\ (Len(data) >= 1 /\ Len(data) <= RocPeriod) => IsNull(ret.vals[1])
        /\ Len(data) > RocPeriod =>
              /\ ret.vals[1] = Num((LastBar.close_price.n - CloseBefore) * 100, CloseBefore)
              /\ LastBar.close_price.n = 2 * CloseBefore => ret.vals[1] = Whole(100)

C14_Witness ==
    /\ Called("calculate_roc")
    /\ Len(data) > RocPeriod
    /\ LastBar.close_price.n = 2 * CloseBefore
    /\ ret.vals[1] = Whole(100)

\* Every bar has high = low = close = p and the volume of the first bar.
ConstantPrice(p) ==
    \A j \in 1..Len(data) :
        /\ data[j].high_price = Whole(p)
        /\ data[j].low_price = Whole(p)
        /\ data[j].close_price = Whole(p)
        /\ data[j].volume = data[1].volume

\* C15: on a constant-price series of at least 20 bars ATR is 0, both
\* Bollinger bands are the price, and RSI, stochastic %K and Williams %R
\* are null.
C15_ConstantPriceSeries ==
    \A p \in 1..20 :
        (Len(data) >= BollingerWindow /\ ConstantPrice(p) /\ call # NoCall) =>
            /\ ret.exc = "none"
            /\ call.fn = "calculate_atr" => ret.vals[1] = Whole(0)
            /\ call.fn = "calculate_bollinger_bands" => ret.vals = <<Whole(p), Whole(p)>>
            /\ call.fn \in {"calculate_rsi", "calculate_stochastic", "calculate_williams_r"}
                  => IsNull(ret.vals[1])

C15_Witness ==
    /\ Called("calculate_rsi")
    /\ Len(data) >= BollingerWindow
    /\ ConstantPrice(7)
    /\ IsNull(ret.vals[1])

\* The value the catalogue reports under `name`.
ValueOf(name) ==
    LET i == CHOOSE j \in 1..Len(ret.recs) : ret.recs[j].indicator_name = name
    IN  ret.recs[i].value

\* The window of each rolling-window indicator.
RollingWindow(name) ==
    CASE name \in {"SMA", "RSI", "Stochastic", "ATR", "ADX", "Williams_R"} -> DefaultPeriod
      [] name \in {"SMA_20", "Bollinger_Upper", "Bollinger_Lower", "CMF"} -> 20
      [] name = "SMA_50" -> 50
      [] name = "SMA_100" -> 100
      [] name = "SMA_200" -> 200

RollingIndicators ==
    {"SMA", "SMA_20", "SMA_50", "SMA_100", "SMA_200", "RSI", "Stochastic", "ATR", "ADX",
     "Williams_R", "Bollinger_Upper", "Bollinger_Lower", "CMF"}

\* The denominator of the indicator is not zero on a series of exactly
\* RollingWindow(name) bars.
NonDegenerate(name) ==
    CASE name = "RSI" -> ~NoDecrease
      [] name \in {"Stochastic", "Williams_R"} -> HighestHigh # LowestLow
      [] name = "ADX" -> TrueRangeSum(1, Len(data)) # 0
      [] name = "CMF" -> /\ \A j \in 1..Len(data) : data[j].high_price # data[j].low_price
                         /\ Volume(1, Len(data)) # 0
      [] OTHER -> TRUE

\* C16: each rolling-window indicator with window w reports a non-null
\* value on exactly w bars when its denominator is not zero, and null on
\* w - 1 bars.
C16_WindowBarsSuffice ==
    (CatalogueCalled /\ ret.exc = "none") =>
        \A name \in RollingIndicators :
            /\ (Len(data) = RollingWindow(name) /\ NonDegenerate(name))
                  => ~IsNull(ValueOf(name))
            /\ Len(data) = RollingWindow(name) - 1 => IsNull(ValueOf(name))

\* The names a Parabolic SAR record could carry.
ParabolicSarNames ==
    {"Parabolic_SAR", "Parabolic SAR", "ParabolicSAR", "PSAR", "SAR", "parabolic_sar"}

\* C17: the list calculate_technical_indicators returns for a non-empty
\* series has a Parabolic SAR record whose value is the close of the last
\* bar.
C17_ParabolicSarInCatalogue ==
    (CatalogueCalled /\ Len(data) >= 1) =>
        /\ ret.exc = "none"
        /\ \E i \in 1..Len(ret.recs) :
              /\ ret.recs[i].indicator_name \in ParabolicSarNames
              /\ ret.recs[i].value = LastBar.close_price

Valued(c) == {j \in 1..Len(data) : ~IsNull(data[j][c])}

\* What row i of column c holds after forward then backward filling: its own
\* value, else the nearest value above it, else the first value below it.
FilledCell(c, i) ==
    IF i \in Valued(c) THEN data[i][c]
    ELSE IF \E j \in Valued(c) : j < i
         THEN data[SetMax({j \in Valued(c) : j < i})][c]
         ELSE data[SetMin({j \in Valued(c) : j > i})][c]

\* C19: on a non-empty frame with a value in every column,
\* normalize_yfinance_data returns a frame without null cells, every cell
\* filled forward or else backward and every value kept, with price_range =
\* high_price - low_price and average_price = (high_price + low_price) / 2
\* on the filled values.
C19_NormalizeFillsEveryGap ==
    [][(call'.fn = "normalize_yfinance_data" /\ Len(data) >= 1
          /\ \A c \in RawColumns : Valued(c) # {}) =>
            /\ ret'.exc = "none"
            /\ data' = ret'.recs
            /\ Len(ret'.recs) = Len(data)
            /\ \A i \in 1..Len(data) :
                  LET row == ret'.recs[i]
                  IN  /\ \A c \in DOMAIN row : ~IsNull(row[c])
                      /\ \A c \in RawColumns : row[Renamed(c)] = FilledCell(c, i)
                      /\ row.price_range = Sub(row.high_price, row.low_price)
                      /\ row.average_price
                            = Div(Add(row.high_price, row.low_price), Whole(2))]_vars

\* A returned frame whose second row took its open from the row above and
\* whose first row took its low from the row below.
C19_Witness ==
    /\ Called("normalize_yfinance_data")
    /\ Len(ret.recs) = 3
    /\ ret.recs[2].open_price = Whole(160) /\ ret.recs[2].high_price = Whole(156)
    /\ ret.recs[1].low_price = Whole(150) /\ ret.recs[1].high_price = Whole(170)
    /\ \A i \in 1..3 : \A c \in DOMAIN ret.recs[i] : ~IsNull(ret.recs[i][c])

\* C20: sanitize(v) is None exactly when v is None, a float NaN or the empty
\* string, and v itself for every other value: 0, 0.0 and False are kept.
C20_SanitizeKeepsZeroAndFalse ==
    call.fn = "sanitize" =>
        \A i \in 1..Len(data) :
            ret.vals[i] = (IF data[i] \in {None, PyFloat(NaN), PyStr("")} THEN None ELSE data[i])

\* The position of a step in the stated order, and of a ticker in the list
\* fetch_all_tickers returned.
StepRank(step) ==
    CASE step = "fetch" -> 1
      [] step = "normalize" -> 2
      [] step = "insert_stock_data" -> 3
      [] step = "calculate_technical_indicators" -> 4
      [] step = "insert_technical_indicators" -> 5

TickerRank(t) == CHOOSE i \in 1..Len(sched.tickers) : sched.tickers[i] = t

Running == sched.pc # "idle"

\* C21: a run takes the tickers one at a time in the order fetch_all_tickers
\* returned them, each once, and each through fetch, normalize,
\* insert_stock_data, calculate_technical_indicators and
\* insert_technical_indicators in that order; the indicators of a ticker are
\* inserted only after its stock data is stored and only when the list is
\* not empty; without tickers nothing is fetched or inserted.
C21_TickersInOrderStepsInOrder ==
    Running =>
        LET trace == sched.trace
        IN  /\ \A i \in 1..Len(trace) :
                  /\ \E j \in 1..Len(sched.tickers) : trace[i][2] = sched.tickers[j]
                  /\ IF StepRank(trace[i][1]) = 1
                     THEN TickerRank(trace[i][2]) = (IF i = 1 THEN 1
                                                    ELSE TickerRank(trace[i - 1][2]) + 1)
                     ELSE /\ i > 1
                          /\ trace[i - 1][2] = trace[i][2]
                          /\ StepRank(trace[i - 1][1]) = StepRank(trace[i][1]) - 1
            /\ \A i, j \in 1..Len(trace) : i # j => trace[i] # trace[j]
            /\ sched.indicators \subseteq sched.stock
            /\ (Len(trace) > 0 /\ trace[Len(trace)][1] = "insert_technical_indicators")
                  => ret.recs # <<>>
            /\ sched.tickers = <<>> =>
                  (trace = <<>> /\ sched.stock = {} /\ sched.indicators = {})

\* Both tickers of a list went through all five steps.
C21_Witness ==
    /\ sched.pc = "done"
    /\ Len(sched.tickers) = 2
    /\ Len(sched.trace) = 10
    /\ sched.indicators = {sched.tickers[1], sched.tickers[2]}

\* The steps of the loop body, and the entries of the trace for one ticker.
Steps ==
    {"fetch", "normalize", "insert_stock_data", "calculate_technical_indicators",
     "insert_technical_indicators"}

StepsOf(t) == {sched.trace[i][1] : i \in {j \in 1..Len(sched.trace) : sched.trace[j][2] = t}}

TickersBefore(k) == {sched.tickers[i] : i \in 1..(k - 1)}

FailedStep == sched.trace[Len(sched.trace)]

\* The run ended with the exception of a step of ticker k: that step is the
\* last one started, no later ticker has a step, and what the inserts
\* stored before is still stored.
EndedAtFailingStep ==
    sched.pc = "raised" =>
        /\ sched.exc # "none"
        /\ sched.tickers # <<>> =>
              /\ sched.trace # <<>>
              /\ FailedStep[2] = Ticker
              /\ FailedStep[1] = "normalize" <=> sched.exc = "ValueError"
              /\ \A i \in 1..Len(sched.tickers) : i > sched.k => StepsOf(sched.tickers[i]) = {}
              /\ \A t \in TickersBefore(sched.k) : StepsOf(t) = Steps
              /\ sched.stock = TickersBefore(sched.k) \cup
                    (IF StepRank(FailedStep[1]) > StepRank("insert_stock_data")
                     THEN {Ticker} ELSE {})

\* The run returned normally: no step raised, and every ticker went through
\* every step.
EndedNormally ==
    sched.pc = "done" =>
        /\ sched.exc = "none"
        /\ \A i \in 1..Len(sched.tickers) : StepsOf(sched.tickers[i]) = Steps
        /\ sched.stock = {sched.tickers[i] : i \in 1..Len(sched.tickers)}

\* C23: without per-ticker failure isolation, a step of ticker k that raises
\* ends the run with that exception: no step runs for a later ticker, the
\* stock data stored for the tickers before k (and for k when the failure
\* comes after insert_stock_data) stays stored, and the run completes
\* normally only when every step of every ticker succeeded.
C23_NoFailureIsolation ==
    /\ [](EndedAtFailingStep /\ EndedNormally)
    /\ [][Running => /\ sched.stock \subseteq sched'.stock
                     /\ sched.pc \in {"raised", "done"} => sched' = sched]_vars

\* The second of three tickers failed in insert_technical_indicators: the
\* first two tickers' stock data is stored, the third was never fetched.
C23_Witness ==
    /\ sched.pc = "raised"
    /\ Len(sched.tickers) = 3
    /\ sched.k = 2
    /\ FailedStep = <<"insert_technical_indicators", sched.tickers[2]>>
    /\ sched.stock = {sched.tickers[1], sched.tickers[2]}
    /\ sched.indicators = {sched.tickers[1]}
    /\ StepsOf(sched.tickers[3]) = {}

\* How often execute_query made the call `op`, and whether it has exited.
Count(op) == Cardinality({i \in 1..Len(db.ops) : db.ops[i] = op})

Exited == db.pc \in {"returned", "raised"}

\* C22: execute_query owns only the connection it creates.  Called without
\* a connection it calls get_db_connection once, and the connection that
\* returned is closed, last of all, at every exit: after the commit, after
\* the early return of fetch_one or fetch_all, and after an exception, where
\* the rollback comes between the failing call and the close.  Called with
\* a connection it never opens, closes or rolls back one, and the exception
\* caught is the one that propagates.
C22_OwnsOnlyItsOwnConnection ==
    db.pc # "idle" =>
        /\ Count("get_db_connection") <= 1 /\ Count("close") <= 1 /\ Count("rollback") <= 1
        /\ db.supplied =>
              /\ db.connection = CallerConnection
              /\ Count("get_db_connection") = 0 /\ Count("close") = 0 /\ Count("rollback") = 0
              /\ Exited /\ db.caught # "none" => db.exc = db.caught
        /\ (Exited /\ ~db.supplied) =>
              /\ Count("get_db_connection") = 1
              /\ IF db.connection = None
                 THEN db.ops = <<"get_db_connection">> /\ db.pc = "raised"
                 ELSE /\ Count("close") = 1
                      /\ db.ops[Len(db.ops)] = "close"
                      /\ IF db.caught # "none"
                         THEN db.ops[Len(db.ops) - 1] = "rollback"
                         ELSE Count("rollback") = 0
        /\ Exited =>
              /\ (db.pc = "raised") = (db.exc # "none")
              /\ db.caught # "none" => db.pc = "raised"
              /\ db.pc = "returned" =>
                    db.ops[Len(db.ops) - (IF db.supplied THEN 0 ELSE 1)]
                        \in {"fetchone", "fetchall", "commit"}

\* A query on an own connection failed: rolled back, closed, raised.
C22_Witness ==
    /\ db.pc = "raised"
    /\ ~db.supplied
    /\ db.exc = "ProgrammingError"
    /\ db.ops = <<"get_db_connection", "cursor", "execute", "rollback", "close">>
====
